---- MODULE Spec2Model ----
(***************************************************************************)
(* Model of the Auto YouTube Video Generator backend (src/main.py,         *)
(* src/schemas.py): the job endpoints, the three action stubs and the      *)
(* pipeline runner, over a document store.                                 *)
(*                                                                         *)
(* A Python str is a sequence of pieces (for the trigger phrase the pieces *)
(* are single characters, because strip() works on characters); an         *)
(* Optional value is None or Some(v); one HTTP request is one atomic step. *)
(***************************************************************************)
EXTENDS Integers, Sequences, FiniteSets, TLC

VARIABLES store, next_oid, store_up, resp

vars == <<store, next_oid, store_up, resp>>

(* ------------------------------ bounds -------------------------------- *)

\* most documents the videojob collection holds in a checked run
MaxStore == 2

\* longest scene_prompts list posted to the b-roll stub
MaxPrompts == 11

(* --------------------------- Python values ---------------------------- *)

None == [null |-> TRUE]

Some(v) == [null |-> FALSE, val |-> v]

IsNone(x) == x.null

Digit(d) == <<"0", "1", "2", "3", "4", "5", "6", "7", "8", "9">>[d + 1]

\* str(i) / f"{i}" of a non-negative int: its decimal digits
RECURSIVE Decimal(_)
Decimal(n) == IF n < 10 THEN <<Digit(n)>> ELSE Decimal(n \div 10) \o <<Digit(n % 10)>>

\* the characters str.strip() removes when called with no argument
Whitespace == {" ", "\t", "\n"}

RECURSIVE lstrip(_)
lstrip(s) == IF s # <<>> /\ Head(s) \in Whitespace THEN lstrip(Tail(s)) ELSE s

RECURSIVE rstrip(_)
rstrip(s) ==
    IF s # <<>> /\ s[Len(s)] \in Whitespace THEN rstrip(SubSeq(s, 1, Len(s) - 1)) ELSE s

strip(s) == rstrip(lstrip(s))

\* Python truthiness of an Optional[str]: None and "" are falsy
Truthy(x) == ~IsNone(x) /\ x.val # <<>>

(* ------------------------- schemas.VideoJob --------------------------- *)

CanonicalPhrase ==
    << "C", "r", "e", "a", "t", "e", " ", "a", " ", "f", "u", "l", "l", " ",
       "v", "i", "d", "e", "o", " ",
       "a", "u", "t", "o", "m", "a", "t", "i", "c", "a", "l", "l", "y", "." >>

Formats == {"1080p", "9:16", "16:9", "square"}

Statuses == {"queued", "running", "completed", "failed"}

ProgressMin == 0

ProgressMax == 100

\* the field defaults of VideoJob; topic is required and has none
VideoJobDefaults ==
    [ topic          |-> None,
      trigger_phrase |-> CanonicalPhrase,
      voice          |-> "alloy",
      style          |-> "engaging",
      format         |-> "16:9",
      status         |-> "queued",
      step           |-> None,
      progress       |-> 0,
      script         |-> None,
      voiceover_url  |-> None,
      broll_urls     |-> None,
      final_url      |-> None,
      logs           |-> None,
      meta           |-> None ]

\* faulty variant of the validation: format declared as a plain str
VideoJobValid_NoFormatCheck(j) ==
    /\ ~IsNone(j.topic)
    /\ j.status \in Statuses
    /\ j.progress >= ProgressMin
    /\ j.progress <= ProgressMax

\* pydantic validation of the constrained fields of a VideoJob
VideoJobValid(j) ==
    /\ ~IsNone(j.topic)
    /\ j.format \in Formats
    /\ j.status \in Statuses
    /\ j.progress >= ProgressMin
    /\ j.progress <= ProgressMax

(* ------------------------- the record store --------------------------- *)

\* str(ObjectId): the caller-visible form of a store-assigned identifier
oid_str(oid) == <<"oid:">> \o Decimal(oid.oid)

\* the document a job is stored as: its fields plus the store's _id
Document(oid, job) == [_id |-> [oid |-> oid]] @@ job

\* create_document(collection, job): fails when the store is unavailable,
\* otherwise inserts one document and returns its identifier as a string
create_document(st, oid, up, job) ==
    IF up
    THEN [ok |-> TRUE, id |-> oid_str([oid |-> oid]),
          store |-> Append(st, Document(oid, job)), next_oid |-> oid + 1]
    ELSE [ok |-> FALSE, id |-> <<>>, store |-> st, next_oid |-> oid]

\* the numbers of documents get_documents(collection, limit=n) may return
\* from a collection of len documents: up to n for a positive n; for a zero
\* or negative n the count is left to the store
LimitCounts(len, n) ==
    IF n >= 1 THEN {IF n < len THEN n ELSE len} ELSE 0 .. len

\* get_documents(collection, limit=n) returning k documents, in store order
get_documents(st, k) == SubSeq(st, 1, k)

(* --------------------------- action stubs ----------------------------- *)

\* the payload models of the action endpoints
GenerateVoicePayload(script, voice) == [script |-> script, voice |-> voice]

GenerateBrollPayload(scene_prompts) == [scene_prompts |-> scene_prompts]

AutoEditPayload(voiceover_url, broll_urls, style, format) ==
    [voiceover_url |-> voiceover_url, broll_urls |-> broll_urls, style |-> style,
     format |-> format]

action_generate_voice(payload) ==
    [voiceover_url |-> <<"https://example.com/voiceover.mp3">>]

\* f"https://example.com/broll_{i}.mp4"
broll_url(i) == <<"https://example.com/broll_">> \o Decimal(i) \o <<".mp4">>

\* faulty variant of the stub: enumerate() left at its default start of 0
action_generate_broll_from0(payload) ==
    [broll_urls |-> [k \in 1 .. Len(payload.scene_prompts) |-> broll_url(k - 1)]]

\* one URL per prompt, numbered by enumerate(..., start=1)
action_generate_broll(payload) ==
    [broll_urls |-> [k \in 1 .. Len(payload.scene_prompts) |-> broll_url(k)]]

action_auto_edit(payload) ==
    [final_url |-> <<"https://example.com/final_video.mp4">>]

(* ------------------------- the pipeline runner ------------------------ *)

\* RunRequest and its field defaults
RunRequest(trigger_phrase, topic, voice, style, format) ==
    [trigger_phrase |-> trigger_phrase, topic |-> topic, voice |-> voice,
     style |-> style, format |-> format]

RunRequestDefaults ==
    RunRequest(CanonicalPhrase, None, "male_tech_voice", "tech_fastpaced", "1080p")

\* faulty variant of the gate: the phrase compared without strip()
TriggerOk_NoStrip(req) == req.trigger_phrase = CanonicalPhrase

\* the trigger gate: req.trigger_phrase.strip() equals the canonical phrase
TriggerOk(req) == strip(req.trigger_phrase) = CanonicalPhrase

DefaultTopic == <<"Why AI copilots are changing software in 2025">>

\* faulty variant of the resolution: the default only for a topic that is None
ResolveTopic_NoneOnly(req) == IF ~IsNone(req.topic) THEN req.topic.val ELSE DefaultTopic

\* topic = req.topic or "<default>"
ResolveTopic(req) == IF Truthy(req.topic) THEN req.topic.val ELSE DefaultTopic

Trend(topic) ==
    [ topic       |-> topic,
      why         |-> <<"Mass adoption in IDEs and office suites">>,
      viral_score |-> 87,
      angle       |-> <<"Pros & cons with real examples">> ]

Script(topic) ==
    <<"Title: ">> \o topic
        \o << "\n\n", "Intro: In this video, we explore how AI copilots...\n",
              "...\nConclusion: Subscribe for more!" >>

Scenes ==
    << <<"Developer coding with AI suggestions on screen">>,
       <<"Graph showing productivity improvements">>,
       <<"Security team reviewing AI-generated code">> >>

\* faulty variant of the assembly: the job saved while the edit step runs
PipelineFields_Running(req, topic, script, voice_res, broll_res, edit_res) ==
    [ VideoJobDefaults EXCEPT
        !.topic = Some(topic), !.voice = req.voice, !.style = req.style,
        !.format = req.format, !.status = "running", !.step = Some(<<"Auto edit">>),
        !.progress = 80, !.script = Some(script),
        !.voiceover_url = Some(voice_res.voiceover_url),
        !.broll_urls = Some(broll_res.broll_urls), !.final_url = None,
        !.logs = Some(<< <<"Pipeline executed (mock)">> >>) ]

\* the keyword arguments of the VideoJob the runner assembles
PipelineFields(req, topic, script, voice_res, broll_res, edit_res) ==
    [ VideoJobDefaults EXCEPT
        !.topic = Some(topic), !.voice = req.voice, !.style = req.style,
        !.format = req.format, !.status = "completed",
        !.step = Some(<<"Final MP4 Output">>), !.progress = 100,
        !.script = Some(script), !.voiceover_url = Some(voice_res.voiceover_url),
        !.broll_urls = Some(broll_res.broll_urls),
        !.final_url = Some(edit_res.final_url),
        !.logs = Some(<< <<"Pipeline executed (mock)">> >>) ]

\* faulty variant of the persist step: the store's exception not caught
run_job_id_Uncaught(ins) ==
    IF ins.ok THEN [raised |-> FALSE, job_id |-> Some(ins.id)]
    ELSE [raised |-> TRUE, job_id |-> None]

\* try: job_id = create_document(...) / except Exception: job_id = None
run_job_id(ins) ==
    IF ins.ok THEN [raised |-> FALSE, job_id |-> Some(ins.id)]
    ELSE [raised |-> FALSE, job_id |-> None]

(* -------------------------- the job endpoints ------------------------- *)

\* faulty variant of create_job: the store's exception swallowed
create_job_result_Swallow(job, ins) ==
    [status |-> 200, body |-> [id |-> ins.id, status |-> job.status]]

\* try: return {"id", "status"} / except: raise HTTPException(500)
create_job_result(job, ins) ==
    IF ins.ok THEN [status |-> 200, body |-> [id |-> ins.id, status |-> job.status]]
    ELSE [status |-> 500, body |-> [detail |-> "store error"]]

\* faulty variant of the remapping: the document returned as stored
RemapId_Forgotten(d) == d

\* if "_id" in d: d["id"] = str(d.pop("_id"))
RemapId(d) ==
    IF "_id" \in DOMAIN d
    THEN [x \in (DOMAIN d \ {"_id"}) \cup {"id"} |->
            IF x = "id" THEN oid_str(d._id) ELSE d[x]]
    ELSE d

(* ------------------------------ inputs -------------------------------- *)

Triggers ==
    { CanonicalPhrase,
      <<" ", "\t">> \o CanonicalPhrase \o <<"\n">>,
      SubSeq(CanonicalPhrase, 1, Len(CanonicalPhrase) - 1),
      <<"w", "r", "o", "n", "g">>,
      <<" ">> }

TopicInputs == {None, Some(<<>>), Some(<<"X">>)}

\* (voice, style) pairs: the RunRequest defaults, and a pair naming no preset
VoiceStyles == {<<"male_tech_voice", "tech_fastpaced">>, <<"alloy", "no such style">>}

FormatInputs == {"1080p", "square", "4k"}

\* the formats run requests carry: the RunRequest default and one that is
\* no VideoJob format
RunFormatInputs == {"1080p", "4k"}

\* request bodies of POST /api/run: every topic, voice/style pair and format
\* under the canonical phrase, and every trigger phrase with each format
RunRequests ==
    { RunRequest(CanonicalPhrase, t, vs[1], vs[2], f) :
        t \in TopicInputs, vs \in VoiceStyles, f \in RunFormatInputs }
    \cup
    { [RunRequestDefaults EXCEPT !.trigger_phrase = tp, !.format = f] :
        tp \in Triggers, f \in RunFormatInputs }

ProgressInputs == {-1, 0, 100, 101}

\* request bodies of POST /api/jobs: the fields a caller sets, the rest defaulted
JobInputs ==
    LET base == [VideoJobDefaults EXCEPT !.topic = Some(<<"X">>)]
    IN { [base EXCEPT !.format = f] : f \in FormatInputs }
       \cup { [base EXCEPT !.progress = p] : p \in ProgressInputs }
       \cup { [base EXCEPT !.status = "done"], VideoJobDefaults }

DefaultLimit == 20

Limits == {-1, 0, 1, 2, DefaultLimit}

\* scene_prompts lists: n times the same prompt, and the same with another
\* prompt at one position
PromptLists ==
    { [i \in 1 .. n |-> IF i = j THEN <<"b">> ELSE <<"a">>] :
        n \in 0 .. MaxPrompts, j \in 0 .. MaxPrompts }

(* ------------------------------ state --------------------------------- *)

\* resp: the last request served and what the caller got back; steps lists
\* the calls the handler made, in order
Response(op, req, status, body, steps) ==
    [op |-> op, req |-> req, status |-> status, body |-> body, steps |-> steps]

Init ==
    /\ store = <<>>
    /\ next_oid = 1
    /\ store_up \in BOOLEAN
    /\ resp = Response("none", None, 0, None, <<>>)

\* POST /api/jobs
create_job ==
    \E job \in JobInputs :
        IF ~VideoJobValid(job)
        THEN /\ resp' = Response("create_job", job, 422, [detail |-> "validation error"], <<>>)
             /\ UNCHANGED <<store, next_oid, store_up>>
        ELSE LET ins == create_document(store, next_oid, store_up, job)
                 res == create_job_result(job, ins)
             IN /\ ins.ok => Len(store) < MaxStore
                /\ store' = ins.store
                /\ next_oid' = ins.next_oid
                /\ resp' = Response("create_job", job, res.status, res.body, <<"insert">>)
                /\ UNCHANGED store_up

\* GET /api/jobs?limit=N
list_jobs ==
    \E limit \in Limits :
        IF ~store_up
        THEN /\ resp' = Response("list_jobs", [limit |-> limit], 500,
                                 [detail |-> "store error"], <<"list">>)
             /\ UNCHANGED <<store, next_oid, store_up>>
        ELSE \E k \in LimitCounts(Len(store), limit) :
                LET docs == get_documents(store, k)
                IN /\ resp' = Response("list_jobs", [limit |-> limit], 200,
                                       [i \in 1 .. Len(docs) |-> RemapId(docs[i])],
                                       <<"list">>)
                   /\ UNCHANGED <<store, next_oid, store_up>>

\* POST /api/run
run_pipeline ==
    \E req \in RunRequests :
        IF ~TriggerOk(req)
        THEN /\ resp' = Response("run", req, 400, [detail |-> "Invalid trigger phrase"], <<>>)
             /\ UNCHANGED <<store, next_oid, store_up>>
        ELSE LET topic == ResolveTopic(req)
                 trend == Trend(topic)
                 script == Script(topic)
                 voice_res == action_generate_voice(GenerateVoicePayload(script, req.voice))
                 broll_res == action_generate_broll(GenerateBrollPayload(Scenes))
                 edit_res == action_auto_edit(
                                 AutoEditPayload(voice_res.voiceover_url,
                                                 broll_res.broll_urls, req.style, req.format))
                 fields == PipelineFields(req, topic, script, voice_res, broll_res, edit_res)
                 stubs == <<"voice", "broll", "edit">>
             IN IF ~VideoJobValid(fields)
                THEN /\ resp' = Response("run", req, 500,
                                         [detail |-> "Internal Server Error"], stubs)
                     /\ UNCHANGED <<store, next_oid, store_up>>
                ELSE LET ins == create_document(store, next_oid, store_up, fields)
                         got == run_job_id(ins)
                         done == stubs \o <<"assemble", "insert">>
                     IN /\ ins.ok => Len(store) < MaxStore
                        /\ store' = ins.store
                        /\ next_oid' = ins.next_oid
                        /\ UNCHANGED store_up
                        /\ resp' =
                             IF got.raised
                             THEN Response("run", req, 500,
                                           [detail |-> "Internal Server Error"], done)
                             ELSE Response("run", req, 200,
                                      [ job_id        |-> got.job_id,
                                        trend         |-> trend,
                                        script        |-> script,
                                        voiceover_url |-> voice_res.voiceover_url,
                                        broll_urls    |-> broll_res.broll_urls,
                                        final_url     |-> edit_res.final_url ], done)

\* the store becomes unreachable, or a write or read starts to fail
StoreFails ==
    /\ store_up
    /\ store_up' = FALSE
    /\ UNCHANGED <<store, next_oid, resp>>

StoreRecovers ==
    /\ ~store_up
    /\ store_up' = TRUE
    /\ UNCHANGED <<store, next_oid, resp>>

\* POST /api/actions/generate_voice
generate_voice ==
    \E t \in {<<"X">>, DefaultTopic}, vs \in VoiceStyles :
        LET payload == GenerateVoicePayload(Script(t), vs[1])
        IN /\ resp' = Response("generate_voice", payload, 200,
                               action_generate_voice(payload), <<>>)
           /\ UNCHANGED <<store, next_oid, store_up>>

\* POST /api/actions/generate_broll
generate_broll ==
    \E prompts \in PromptLists :
        LET payload == GenerateBrollPayload(prompts)
        IN /\ resp' = Response("generate_broll", payload, 200,
                               action_generate_broll(payload), <<>>)
           /\ UNCHANGED <<store, next_oid, store_up>>

\* POST /api/actions/auto_edit_video
auto_edit ==
    \E n \in 0 .. 1, vs \in VoiceStyles, f \in FormatInputs :
        LET payload == AutoEditPayload(<<"https://example.com/voiceover.mp3">>,
                                       [k \in 1 .. n |-> broll_url(k)], vs[2], f)
        IN /\ resp' = Response("auto_edit_video", payload, 200,
                               action_auto_edit(payload), <<>>)
           /\ UNCHANGED <<store, next_oid, store_up>>

Next == create_job \/ list_jobs \/ run_pipeline \/ StoreFails \/ StoreRecovers

\* the store-backed endpoints, with the store coming and going
Spec == Init /\ [][Next]_vars

NextActions == generate_voice \/ generate_broll \/ auto_edit

\* the three stateless action endpoints
SpecActions == Init /\ [][NextActions]_vars

(* ============================ properties ============================== *)

\* the step just taken served a request of handler op
Served(op) == resp'.op = op /\ (resp' # resp \/ store' # store)

\* s is the canonical phrase with only whitespace before and after it
TrimsToCanonical(s) ==
    \E i \in 1 .. Len(s) - Len(CanonicalPhrase) + 1 :
        /\ SubSeq(s, i, i + Len(CanonicalPhrase) - 1) = CanonicalPhrase
        /\ \A k \in 1 .. Len(s) :
              (k < i \/ k >= i + Len(CanonicalPhrase)) => s[k] \in Whitespace

\* sequence t occurs in sequence s
Contains(s, t) ==
    \E i \in 1 .. Len(s) - Len(t) + 1 : SubSeq(s, i, i + Len(t) - 1) = t

\* the whole sequence of an accepted run
FullRun == <<"voice", "broll", "edit", "assemble", "insert">>

\* the documents of the store whose identifier reads id
DocsWithId(st, id) == {i \in 1 .. Len(st) : oid_str(st[i]._id) = id}

\* C1: a run request is rejected with HTTP 400 exactly when its trigger
\* phrase, trimmed of surrounding whitespace, differs from the canonical
\* phrase; a rejected run invokes no stub and no insert and leaves the store
\* as it was.
C1_TriggerGate ==
    [][ Served("run") =>
          /\ (resp'.status = 400) <=> ~TrimsToCanonical(resp'.req.trigger_phrase)
          /\ resp'.status = 400 =>
                /\ resp'.steps = <<>>
                /\ store' = store
                /\ next_oid' = next_oid ]_vars

C1_Witness ==
    /\ resp.op = "run"
    /\ resp.status = 400
    /\ resp.req.trigger_phrase # <<"w", "r", "o", "n", "g">>
    /\ Len(store) >= 1

\* C2: when the insert of a run request with the canonical phrase fails
\* (the store is down when the insert is attempted), the request still
\* returns a result with script, voiceover_url, broll_urls and final_url set
\* and job_id null, and the store gains no record.
C2_RunSurvivesStoreFailure ==
    [][ ( /\ Served("run")
          /\ TrimsToCanonical(resp'.req.trigger_phrase)
          /\ "insert" \in {resp'.steps[k] : k \in 1 .. Len(resp'.steps)}
          /\ ~store_up )
        => /\ resp'.status = 200
           /\ IsNone(resp'.body.job_id)
           /\ Len(resp'.body.script) > 0
           /\ Len(resp'.body.voiceover_url) > 0
           /\ Len(resp'.body.broll_urls) = Len(Scenes)
           /\ Len(resp'.body.final_url) > 0
           /\ store' = store ]_vars

C2_Witness ==
    /\ resp.op = "run"
    /\ resp.status = 200
    /\ IsNone(resp.body.job_id)
    /\ resp.steps = FullRun
    /\ ~store_up

\* C3: when the insert of a create_job request fails, the caller gets an
\* HTTP 500 error and no {id, status} result, and the store holds exactly
\* the records it held before.
C3_CreateJobSurfacesStoreFailure ==
    [][ ( /\ Served("create_job")
          /\ resp'.steps = <<"insert">>
          /\ ~store_up )
        => /\ resp'.status = 500
           /\ "id" \notin DOMAIN resp'.body
           /\ store' = store ]_vars

C3_Witness ==
    /\ resp.op = "create_job"
    /\ resp.status = 500
    /\ resp.steps = <<"insert">>
    /\ Len(store) >= 1

\* C4: create_job rejects every job whose format is none of 1080p, 9:16,
\* 16:9, square and every job whose progress is outside 0..100, attempting
\* no insert; every record of the store has one of the four formats and a
\* progress in 0..100.
C4_StoredJobsAreValid ==
    /\ \A i \in 1 .. Len(store) :
          /\ store[i].format \in {"1080p", "9:16", "16:9", "square"}
          /\ store[i].progress \in 0 .. 100
    /\ ( /\ resp.op = "create_job"
         /\ \/ resp.req.format \notin {"1080p", "9:16", "16:9", "square"}
            \/ resp.req.progress \notin 0 .. 100 )
       => resp.status \notin {200, 500} /\ resp.steps = <<>>

C4_Witness ==
    /\ resp.op = "create_job"
    /\ resp.req.format = "4k"
    /\ resp.status = 422
    /\ \E i \in 1 .. Len(store) : store[i].status = "queued"

\* every document list_jobs returned has an id, the string form of the
\* identifier of a stored document with the same fields, and no _id
ListedIdsOk ==
    \A i \in 1 .. Len(resp.body) :
        /\ "id" \in DOMAIN resp.body[i]
        /\ "_id" \notin DOMAIN resp.body[i]
        /\ \E j \in DocsWithId(store, resp.body[i].id) :
              \A f \in DOMAIN store[j] \ {"_id"} : resp.body[i][f] = store[j][f]

DigitValue(c) == CHOOSE d \in 0 .. 9 : Digit(d) = c

\* the number a sequence of decimal digits denotes
RECURSIVE ParseDecimal(_)
ParseDecimal(ds) ==
    IF ds = <<>> THEN 0
    ELSE 10 * ParseDecimal(SubSeq(ds, 1, Len(ds) - 1)) + DigitValue(ds[Len(ds)])

\* u is the b-roll URL whose name carries number i, written without a
\* leading zero
IsBrollUrl(u, i) ==
    /\ Len(u) >= 3
    /\ u[1] = "https://example.com/broll_"
    /\ u[Len(u)] = ".mp4"
    /\ LET ds == SubSeq(u, 2, Len(u) - 1)
       IN /\ \A k \in 1 .. Len(ds) : \E d \in 0 .. 9 : ds[k] = Digit(d)
          /\ Len(ds) > 1 => ds[1] # "0"
          /\ ParseDecimal(ds) = i

\* C6: generate_broll returns one URL per prompt, the URL at position i
\* being the name numbered i (from 1), and the result is the one any other
\* list of as many prompts gets.
C6_BrollOnePerPrompt ==
    resp.op = "generate_broll" =>
        LET prompts == resp.req.scene_prompts
            urls == resp.body.broll_urls
            blank == [i \in 1 .. Len(prompts) |-> <<"some other prompt">>]
        IN /\ Len(urls) = Len(prompts)
           /\ \A i \in 1 .. Len(urls) : IsBrollUrl(urls[i], i)
           /\ action_generate_broll(GenerateBrollPayload(blank)).broll_urls = urls

C6_Witness ==
    /\ resp.op = "generate_broll"
    /\ Len(resp.req.scene_prompts) = 11
    /\ resp.req.scene_prompts[1] = resp.req.scene_prompts[2]
    /\ resp.req.scene_prompts[3] # resp.req.scene_prompts[2]
    /\ resp.body.broll_urls[11] = <<"https://example.com/broll_", "1", "1", ".mp4">>

\* the documents run inserted with the arguments of request req
EarlierRuns(st, req) ==
    { i \in 1 .. Len(st) :
        /\ st[i].logs = Some(<< <<"Pipeline executed (mock)">> >>)
        /\ st[i].voice = req.voice
        /\ st[i].style = req.style
        /\ st[i].format = req.format
        /\ st[i].topic = Some(IF req.topic \in {None, Some(<<>>)} THEN DefaultTopic
                              ELSE req.topic.val) }

\* C7 as stated: every run with an accepted trigger phrase, made while the
\* store is available, adds one new record under a fresh non-null job_id,
\* leaving the earlier records as they were, and returns the script and
\* final_url that an earlier run with the same arguments stored.
C7_AsStated ==
    [][ ( /\ Served("run")
          /\ TrimsToCanonical(resp'.req.trigger_phrase)
          /\ store_up )
        => /\ resp'.status = 200
           /\ ~IsNone(resp'.body.job_id)
           /\ DocsWithId(store, resp'.body.job_id.val) = {}
           /\ Len(store') = Len(store) + 1
           /\ SubSeq(store', 1, Len(store)) = store
           /\ DocsWithId(store', resp'.body.job_id.val) = {Len(store')}
           /\ \A i \in EarlierRuns(store, resp'.req) :
                 /\ store[i].script = Some(resp'.body.script)
                 /\ store[i].final_url = Some(resp'.body.final_url) ]_vars

\* C8: a run that returns a result resolves the topic to the supplied one
\* when it is present and non-empty and to the default topic otherwise;
\* trend.topic is that topic, the script contains it, and the persisted job
\* carries it.
C8_TopicResolution ==
    (resp.op = "run" /\ resp.status = 200) =>
        LET topic == IF resp.req.topic \in {None, Some(<<>>)} THEN DefaultTopic
                     ELSE resp.req.topic.val
        IN /\ resp.body.trend.topic = topic
           /\ Contains(resp.body.script, topic)
           /\ ~IsNone(resp.body.job_id) =>
                 /\ DocsWithId(store, resp.body.job_id.val) # {}
                 /\ \A i \in DocsWithId(store, resp.body.job_id.val) :
                       store[i].topic = Some(topic)

C8_Witness ==
    /\ resp.op = "run"
    /\ resp.status = 200
    /\ resp.req.topic = Some(<<>>)
    /\ ~IsNone(resp.body.job_id)
    /\ \E i \in 1 .. Len(store) : store[i].topic = Some(<<"X">>)

\* C9 as stated: every run request that passes the trigger gate goes through
\* voice stub, b-roll stub, auto-edit stub, assembly and one insert attempt,
\* in that order, and returns a result, whatever its voice, style and format.
C9_AsStated ==
    (resp.op = "run" /\ TrimsToCanonical(resp.req.trigger_phrase))
    => resp.steps = FullRun /\ resp.status = 200

\* C10: a run either adds nothing to the store or adds exactly one record,
\* with status completed, step "Final MP4 Output", progress 100 and the
\* script, voiceover_url, broll_urls and final_url it returns; a run that
\* returns no result adds nothing.
C10_NoPartialPersistence ==
    [][ Served("run") =>
          \/ /\ store' = store
             /\ resp'.status = 200 => IsNone(resp'.body.job_id)
          \/ /\ resp'.status = 200
             /\ ~IsNone(resp'.body.job_id)
             /\ Len(store') = Len(store) + 1
             /\ SubSeq(store', 1, Len(store)) = store
             /\ LET r == store'[Len(store')]
                IN /\ oid_str(r._id) = resp'.body.job_id.val
                   /\ r.status = "completed"
                   /\ r.step = Some(<<"Final MP4 Output">>)
                   /\ r.progress = 100
                   /\ r.script = Some(resp'.body.script)
                   /\ r.voiceover_url = Some(resp'.body.voiceover_url)
                   /\ r.broll_urls = Some(resp'.body.broll_urls)
                   /\ r.final_url = Some(resp'.body.final_url) ]_vars

C10_Witness ==
    /\ resp.op = "run"
    /\ resp.status = 200
    /\ ~IsNone(resp.body.job_id)
    /\ Len(store) = 2
    /\ store[1].status = "queued"
    /\ store[2].status = "completed"

====
